---- MODULE Spec2Model ----
(***************************************************************************)
(* A model of sabnzbd/utils/ssdp.py: the SSDP announcer thread (class      *)
(* SSDP), its broadcast loop, and the module-level wrappers start_ssdp,    *)
(* stop_ssdp and server_ssdp_xml around the module global __SSDP.          *)
(*                                                                         *)
(* Python strings are modelled as sequences of tokens (TLA+ strings), so   *)
(* that concatenation, f-string interpolation, str.replace and the         *)
(* str -> bytes conversion are computed, not assumed.                      *)
(***************************************************************************)
EXTENDS Naturals, Sequences, FiniteSets, TLC

----------------------------------------------------------------------------
(* Bounds of the model *)

\* the number of SSDP objects the process constructs
MaxInst == 2
\* the number of application threads inside the module's wrapper functions
NumCallers == 2
\* late[i] counts up to this and then stays: "more than LateCap - 1"
LateCap == 2
\* the number of application threads calling serve_xml() concurrently
NumReaders == 2

Inst == 1..MaxInst
Callers == 1..NumCallers
Readers == 1..NumReaders

----------------------------------------------------------------------------
(* Python values *)

\* Python's None
PyNone == [type |-> "NoneType", value |-> <<>>]
\* a Python str holding the tokens s
PyStr(s) == [type |-> "str", value |-> s]
\* a Python bytes object holding the tokens s
PyBytes(s) == [type |-> "bytes", value |-> s]
\* a raised exception
PyRaise(e) == [type |-> e, value |-> <<>>]
\* an "empty/absent" result: None or the empty string
IsEmpty(v) == v = PyNone \/ v = PyStr(<<>>)

\* the arguments the application passes and the local host name.  No
\* statement of the module branches on them: they only fill the payloads
Hosts == {<<"1", "9", "2", ".", "1", "6", "8", ".", "1", ".", "5", "0">>}
Hostnames == {<<"n", "a", "s">>}
Urls == {<<"http://192.168.1.50:8080">>}
ServerNames == {<<"TestServer">>}
Descriptions == {<<"x">>}

----------------------------------------------------------------------------
(* SSDP.__init__: the two payloads *)

\* mutant: the identifier ignores the name
uuid3_nameless(namespace, name) == <<"uuid3(", namespace, ")">>

\* str(uuid.uuid3(namespace, name)): a name-based identifier, a function of
\* the namespace and of the name's characters only
uuid3(namespace, name) == <<"uuid3(", namespace, ":">> \o name \o <<")">>

\* str.replace("\n", "\r\n") on a token sequence
RECURSIVE replace_lf(_)
replace_lf(s) ==
    IF s = <<>> THEN <<>>
    ELSE (IF Head(s) = "LF" THEN <<"CR", "LF">> ELSE <<Head(s)>>)
         \o replace_lf(Tail(s))

\* bytes(s, "utf-8")
bytes_utf8(s) == PyBytes(s.value)

\* the f-string of lines 50-60
broadcast_text(url, id) ==
    <<"NOTIFY * HTTP/1.1", "LF",
      "HOST: 239.255.255.250:1900", "LF",
      "CACHE-CONTROL: max-age=60", "LF",
      "LOCATION: ">> \o url \o <<"/description.xml", "LF",
      "SERVER: SABnzbd", "LF",
      "NT: upnp:rootdevice", "LF",
      "USN: uuid:">> \o id \o <<"::upnp:rootdevice", "LF",
      "NTS: ssdp:alive", "LF",
      "OPT: \"http://schemas.upnp.org/upnp/1/0/\"; ns=01", "LF",
      "LF">>

\* the f-string of lines 65-82
xml_text(url, myhostname, id) ==
    <<"<?xml version=\"1.0\" encoding=\"UTF-8\" ?>", "LF",
      "<root xmlns=\"urn:schemas-upnp-org:device-1-0\">", "LF",
      "<specVersion>", "LF",
      "<major>1</major>", "LF",
      "<minor>0</minor>", "LF",
      "</specVersion>", "LF",
      "<URLBase>">> \o url \o <<"</URLBase>", "LF",
      "<device>", "LF",
      "<deviceType>urn:schemas-upnp-org:device:Basic:1</deviceType>", "LF",
      "<friendlyName>SABnzbd (">> \o myhostname \o <<")</friendlyName>", "LF",
      "<manufacturer>SABnzbd Team</manufacturer>", "LF",
      "<manufacturerURL>http://www.sabnzbd.org</manufacturerURL>", "LF",
      "<modelDescription>SABnzbd downloader</modelDescription>", "LF",
      "<modelURL>http://www.sabnzbd.org</modelURL>", "LF",
      "<UDN>uuid:">> \o id \o <<"</UDN>", "LF",
      "<presentationURL>sabnzbd</presentationURL>", "LF",
      "</device>", "LF",
      "</root>">>

\* SSDP.__init__(host, server_name, url, description) with
\* socket.gethostname() returning myhostname: the object's attributes
SSDP_init(host, server_name, url, description, myhostname) ==
    LET id == uuid3("NAMESPACE_DNS", myhostname \o host)
    IN  [__host |-> host,
         __server_name |-> server_name,
         __url |-> url,
         __description |-> description,
         __myhostname |-> myhostname,
         __uuid |-> id,
         __mySSDPbroadcast |->
             bytes_utf8(PyStr(replace_lf(broadcast_text(url, id)))),
         __myxml |-> PyStr(xml_text(url, myhostname, id)),
         __stop |-> FALSE]

\* the attributes of an object that has not been constructed
NoObject == [__stop |-> FALSE]

----------------------------------------------------------------------------
(* State *)

VARIABLES
    hostname,   \* what socket.gethostname() returns in this process
    n,          \* the number of SSDP objects constructed: objects 1..n exist
    self,       \* self[i]: the attributes of object i
    thread,     \* thread[i]: where the Thread of object i is
    sock,       \* sock[i]: the sockets the loop of i holds open
    late,       \* late[i]: datagrams i sent while its __stop was already set
    __SSDP,     \* the module global: 0 (None) or an object
    cpc,        \* cpc[c]: where caller c is inside a wrapper function
    cjoin,      \* cjoin[c]: the thread caller c is joining (0: none)
    cserve,     \* cserve[r]: the object whose serve_xml() reader r is at
                \* line 118 of (0: none)
    net,        \* the datagram put on the network in the last step, if any
    ret         \* the call that returned in the last step, if one did

vars ==
    <<hostname, n, self, thread, sock, late, __SSDP, cpc, cjoin, cserve,
      net, ret>>

\* Thread.is_alive(): started and run() has not finished
is_alive(i) == thread[i] \notin {"initial", "returned", "raised"}
\* run() has finished, by returning or by an exception
terminated(i) == thread[i] \in {"returned", "raised"}

\* a call op on object i (0: none) that returned, or raised, v
Returned(op, i, v) == [op |-> op, inst |-> i, val |-> v]
\* the last step returned from no call
NoReturn == Returned("none", 0, PyNone)
\* the last step sent no datagram
NoDatagram == [src |-> 0, data |-> PyNone, to |-> <<>>, ttl |-> 0]

Init ==
    /\ hostname \in Hostnames
    /\ n = 0
    /\ self = [i \in Inst |-> NoObject]
    /\ thread = [i \in Inst |-> "initial"]
    /\ sock = [i \in Inst |-> <<>>]
    /\ late = [i \in Inst |-> 0]
    /\ __SSDP = 0
    /\ cpc = [c \in Callers |-> "idle"]
    /\ cjoin = [c \in Callers |-> 0]
    /\ cserve = [r \in Readers |-> 0]
    /\ net = NoDatagram
    /\ ret = NoReturn

----------------------------------------------------------------------------
(* SSDP.run: the broadcast loop, one action per statement *)

\* the standard multicast settings for SSDP
MCAST_GRP == "239.255.255.250"
MCAST_PORT == 1900
MULTICAST_TTL == 2
\* the multicast TTL of a new socket, before setsockopt
DEFAULT_TTL == 1

\* mutant: the loop never reads the flag
while_cond_forever(o) == TRUE
\* mutant: the loop condition is inverted
while_cond_inverted(o) == o.__stop

\* mutant: the loop body is never entered
while_cond_never(o) == FALSE

\* line 100: the loop condition, 1 and not self.__stop
while_cond(o) == ~o.__stop

\* line 105: socket.socket(AF_INET, SOCK_DGRAM, IPPROTO_UDP): a new socket
\* joins the sockets ss the loop holds
socket_open(ss) == Append(ss, [ttl |-> DEFAULT_TTL])

\* line 107: setsockopt(IPPROTO_IP, IP_MULTICAST_TTL, MULTICAST_TTL) on the
\* socket of the with block, the last one opened
setsockopt(ss) == [ss EXCEPT ![Len(ss)] = [ttl |-> MULTICAST_TTL]]

\* mutant: leaving the with block leaves the socket open
socket_exit_leak(ss) == ss

\* line 105: leaving the with block, normally or by an exception, closes
\* its socket
socket_exit(ss) == SubSeq(ss, 1, Len(ss) - 1)

\* line 108: the datagram sock.sendto hands to the network
datagram(i, o, s) ==
    [src |-> i, data |-> o.__mySSDPbroadcast,
     to |-> <<MCAST_GRP, MCAST_PORT>>, ttl |-> s.ttl]

\* a step of the loop of i that takes its thread to t and leaves its
\* sockets as ss, sending d
RunStep(i, t, ss, d) ==
    /\ thread' = [thread EXCEPT ![i] = t]
    /\ sock' = [sock EXCEPT ![i] = ss]
    /\ net' = d
    /\ late' = [late EXCEPT ![i] =
                  IF d # NoDatagram /\ self[i].__stop /\ @ < LateCap
                  THEN @ + 1 ELSE @]
    /\ ret' = NoReturn
    /\ UNCHANGED <<hostname, n, self, __SSDP, cpc, cjoin, cserve>>

\* the call op of the loop of i raises OSError: nothing in run() catches
\* it, so it ends run() and the thread, leaving the sockets ss
RunRaise(i, op, ss) ==
    /\ thread' = [thread EXCEPT ![i] = "raised"]
    /\ sock' = [sock EXCEPT ![i] = ss]
    /\ net' = NoDatagram
    /\ ret' = Returned(op, i, PyRaise("OSError"))
    /\ UNCHANGED <<hostname, n, self, late, __SSDP, cpc, cjoin, cserve>>

\* line 100: the flag is read at the top of every iteration
RunWhile(i) ==
    /\ thread[i] = "while"
    /\ RunStep(i, IF while_cond(self[i]) THEN "socket" ELSE "returned",
               sock[i], NoDatagram)

\* line 105: socket.socket(...) opens a socket, or raises OSError, which
\* ends run()
RunSocket(i) ==
    /\ thread[i] = "socket"
    /\ \/ RunStep(i, "setsockopt", socket_open(sock[i]), NoDatagram)
       \/ RunRaise(i, "socket", sock[i])

\* line 107: sock.setsockopt(...), or OSError: the with statement closes
\* the socket and the exception ends run()
RunSetsockopt(i) ==
    /\ thread[i] = "setsockopt"
    /\ \/ RunStep(i, "sendto", setsockopt(sock[i]), NoDatagram)
       \/ RunRaise(i, "setsockopt", socket_exit(sock[i]))

\* line 108: sock.sendto(self.__mySSDPbroadcast, (MCAST_GRP, MCAST_PORT)),
\* or OSError: the with statement closes the socket and run() ends
RunSendto(i) ==
    /\ thread[i] = "sendto"
    /\ \/ RunStep(i, "exit", sock[i],
                  datagram(i, self[i], sock[i][Len(sock[i])]))
       \/ RunRaise(i, "sendto", socket_exit(sock[i]))

\* mutant: the loop does not sleep
RunExit_nosleep(i) ==
    /\ thread[i] = "exit"
    /\ RunStep(i, "while", socket_exit(sock[i]), NoDatagram)

\* lines 105-108: the with block is left and closes the socket
RunExit(i) ==
    /\ thread[i] = "exit"
    /\ RunStep(i, "sleep", socket_exit(sock[i]), NoDatagram)

\* line 109: time.sleep(5) returns
RunSleep(i) ==
    /\ thread[i] = "sleep"
    /\ RunStep(i, "while", sock[i], NoDatagram)

\* one step of the background thread of object i
Run(i) ==
    \/ RunWhile(i)
    \/ RunSocket(i)
    \/ RunSetsockopt(i)
    \/ RunSendto(i)
    \/ RunExit(i)
    \/ RunSleep(i)

----------------------------------------------------------------------------
(* The methods of one SSDP object.  Each is one atomic step of whichever   *)
(* application thread calls it.                                            *)

\* mutant: start() runs a thread again, whatever state it is in
Thread_start_again(t) == "while"

\* mutant: run() enters the loop body before it first tests the flag
Thread_start_in_body(t) == IF t = "initial" THEN "socket" ELSE t

\* Thread.start(): the state it leaves a Thread in state t in
Thread_start(t) == IF t = "initial" THEN "while" ELSE t
\* Thread.start() raises RuntimeError on a thread started before
Thread_start_result(t) ==
    IF t = "initial" THEN PyNone ELSE PyRaise("RuntimeError")

\* mutant: stop() flips the flag, so a second call restarts the object
stop_toggle(o) == [o EXCEPT !.__stop = ~@]
\* mutant: stop() also drops the document
stop_clear(o) == [o EXCEPT !.__stop = TRUE, !.__myxml = PyStr(<<>>)]

\* mutant: a stop() on an object already stopped drops the document
stop_again_clears(o) ==
    IF o.__stop THEN [o EXCEPT !.__myxml = PyStr(<<>>)]
    ELSE [o EXCEPT !.__stop = TRUE]

\* lines 87-89: SSDP.stop
stop(o) == [o EXCEPT !.__stop = TRUE]

\* mutant: serve_xml() without the test of the flag
serve_xml_unconditional(o) == o.__myxml

\* lines 111-118: SSDP.serve_xml
serve_xml(o) == IF o.__stop THEN PyNone ELSE o.__myxml

\* lines 38-85: SSDP(host, server_name, url, description) makes object n + 1
NewObject ==
    /\ n < MaxInst
    /\ \E host \in Hosts, server_name \in ServerNames, url \in Urls,
          description \in Descriptions :
          self' = [self EXCEPT ![n + 1] =
                     SSDP_init(host, server_name, url, description, hostname)]
    /\ n' = n + 1
    /\ net' = NoDatagram
    /\ UNCHANGED <<hostname, thread, sock, late, cjoin, cserve>>

\* SSDP(...) called by the application itself
Construct ==
    /\ NewObject
    /\ ret' = Returned("SSDP", n + 1, PyNone)
    /\ UNCHANGED <<__SSDP, cpc>>

\* i.start()
Start(i) ==
    /\ i <= n
    /\ thread' = [thread EXCEPT ![i] = Thread_start(@)]
    /\ ret' = Returned("start", i, Thread_start_result(thread[i]))
    /\ net' = NoDatagram
    /\ UNCHANGED <<hostname, n, self, sock, late, __SSDP, cpc, cjoin,
                   cserve>>

\* i.stop()
Stop(i) ==
    /\ i <= n
    /\ self' = [self EXCEPT ![i] = stop(@)]
    /\ ret' = Returned("stop", i, PyNone)
    /\ net' = NoDatagram
    /\ UNCHANGED <<hostname, n, thread, sock, late, __SSDP, cpc, cjoin,
                   cserve>>

\* i.serve_xml()
ServeXml(i) ==
    /\ i <= n
    /\ ret' = Returned("serve_xml", i, serve_xml(self[i]))
    /\ net' = NoDatagram
    /\ UNCHANGED <<hostname, n, self, thread, sock, late, __SSDP, cpc, cjoin,
                   cserve>>

----------------------------------------------------------------------------
(* The module-level wrappers.  Every use of the name __SSDP is a fresh     *)
(* read of the module global, so a wrapper is one action per read.         *)

\* caller c goes to pc and the call in progress returns r (NoReturn: it
\* has not returned)
Goto(c, pc, r) ==
    /\ cpc' = [cpc EXCEPT ![c] = pc]
    /\ ret' = r
    /\ net' = NoDatagram
    /\ UNCHANGED cserve

\* mutant: start_ssdp() stops the object it replaces
StartSsdpAssign_stopping(c) ==
    /\ cpc[c] = "idle"
    /\ n < MaxInst
    /\ \E host \in Hosts, server_name \in ServerNames, url \in Urls,
          description \in Descriptions :
          self' = [i \in Inst |->
                     IF i = n + 1
                     THEN SSDP_init(host, server_name, url, description,
                                    hostname)
                     ELSE IF i = __SSDP THEN stop(self[i]) ELSE self[i]]
    /\ n' = n + 1
    /\ __SSDP' = n + 1
    /\ cpc' = [cpc EXCEPT ![c] = "start_129"]
    /\ ret' = NoReturn
    /\ net' = NoDatagram
    /\ UNCHANGED <<hostname, thread, sock, late, cjoin, cserve>>

\* line 128: __SSDP = SSDP(host, server_name, url, description)
StartSsdpAssign(c) ==
    /\ cpc[c] = "idle"
    /\ NewObject
    /\ __SSDP' = n + 1
    /\ cpc' = [cpc EXCEPT ![c] = "start_129"]
    /\ ret' = NoReturn

\* line 129: __SSDP.start()
StartSsdpStart(c) ==
    /\ cpc[c] = "start_129"
    /\ thread' = [thread EXCEPT ![__SSDP] = Thread_start(@)]
    /\ Goto(c, "idle", Returned("start_ssdp", __SSDP,
                                Thread_start_result(thread[__SSDP])))
    /\ UNCHANGED <<hostname, n, self, sock, late, __SSDP, cjoin>>

\* mutant: the condition tests only that an object is tracked
ssdp_alive_tracked(g) == g # 0
\* mutant: the condition is dropped
ssdp_alive_always(g) == TRUE

\* mutant: a thread that has finished still counts as alive
ssdp_alive_started(g) == g # 0 /\ thread[g] # "initial"

\* lines 133 and 140: if __SSDP and __SSDP.is_alive().  The global is read
\* twice, but once set it is never None again, so the first read decides
\* nothing the second does not: the condition is one step, taken at the
\* second read
ssdp_alive(g) == g # 0 /\ is_alive(g)

\* line 133: the condition of stop_ssdp
StopSsdpIf(c) ==
    /\ cpc[c] = "idle"
    /\ IF ssdp_alive(__SSDP)
       THEN Goto(c, "stop_134", NoReturn)
       ELSE Goto(c, "idle", Returned("stop_ssdp", 0, PyNone))
    /\ UNCHANGED <<hostname, n, self, thread, sock, late, __SSDP, cjoin>>

\* line 134: __SSDP.stop()
StopSsdpStop(c) ==
    /\ cpc[c] = "stop_134"
    /\ self' = [self EXCEPT ![__SSDP] = stop(@)]
    /\ Goto(c, "stop_135", NoReturn)
    /\ UNCHANGED <<hostname, n, thread, sock, late, __SSDP, cjoin>>

\* line 135: __SSDP.join() is called: RuntimeError on a thread that was
\* never started, otherwise the caller waits for that thread
StopSsdpJoin(c) ==
    /\ cpc[c] = "stop_135"
    /\ IF thread[__SSDP] = "initial"
       THEN /\ Goto(c, "idle",
                    Returned("stop_ssdp", __SSDP, PyRaise("RuntimeError")))
            /\ UNCHANGED cjoin
       ELSE /\ Goto(c, "join", NoReturn)
            /\ cjoin' = [cjoin EXCEPT ![c] = __SSDP]
    /\ UNCHANGED <<hostname, n, self, thread, sock, late, __SSDP>>

\* mutant: join() does not wait
join_done_nowait(i) == TRUE

\* what Thread.join() on the thread of object i waits for
join_done(i) == terminated(i)

\* line 135: join() returns once the joined thread has finished
StopSsdpJoined(c) ==
    /\ cpc[c] = "join"
    /\ join_done(cjoin[c])
    /\ Goto(c, "idle", Returned("stop_ssdp", cjoin[c], PyNone))
    /\ cjoin' = [cjoin EXCEPT ![c] = 0]
    /\ UNCHANGED <<hostname, n, self, thread, sock, late, __SSDP>>

\* line 140: the condition of server_ssdp_xml; line 142: return ""
ServerXmlIf(c) ==
    /\ cpc[c] = "idle"
    /\ IF ssdp_alive(__SSDP)
       THEN Goto(c, "xml_141", NoReturn)
       ELSE Goto(c, "idle", Returned("server_ssdp_xml", 0, PyStr(<<>>)))
    /\ UNCHANGED <<hostname, n, self, thread, sock, late, __SSDP, cjoin>>

\* line 141: return __SSDP.serve_xml()
ServerXmlServe(c) ==
    /\ cpc[c] = "xml_141"
    /\ Goto(c, "idle",
            Returned("server_ssdp_xml", __SSDP, serve_xml(self[__SSDP])))
    /\ UNCHANGED <<hostname, n, self, thread, sock, late, __SSDP, cjoin>>

start_ssdp(c) == StartSsdpAssign(c) \/ StartSsdpStart(c)

stop_ssdp(c) ==
    \/ StopSsdpIf(c)
    \/ StopSsdpStop(c)
    \/ StopSsdpJoin(c)
    \/ StopSsdpJoined(c)

server_ssdp_xml(c) == ServerXmlIf(c) \/ ServerXmlServe(c)

----------------------------------------------------------------------------
(* The specification: the application uses the wrappers and the objects'  *)
(* methods, from any of its threads.                                       *)

Next ==
    \/ \E i \in Inst : Run(i)
    \/ Construct
    \/ \E i \in Inst : Start(i)
    \/ \E i \in Inst : Stop(i)
    \/ \E i \in Inst : ServeXml(i)
    \/ \E c \in Callers : start_ssdp(c)
    \/ \E c \in Callers : stop_ssdp(c)
    \/ \E c \in Callers : server_ssdp_xml(c)

Spec == Init /\ [][Next]_vars
----------------------------------------------------------------------------
(* The objects on their own: the application constructs SSDP objects and   *)
(* calls their methods, and the module-level wrappers are not used.         *)
(* Fairness: a started thread that can take a step eventually takes it      *)
(* (each socket call and each sleep completes, and the interpreter          *)
(* schedules every thread).                                                 *)

NextObject ==
    \/ \E i \in Inst : Run(i)
    \/ Construct
    \/ \E i \in Inst : Start(i)
    \/ \E i \in Inst : Stop(i)
    \/ \E i \in Inst : ServeXml(i)

ObjectSpec == Init /\ [][NextObject]_vars /\ \A i \in Inst : WF_vars(Run(i))

----------------------------------------------------------------------------
(* The wrappers on their own: the application uses only start_ssdp,        *)
(* stop_ssdp and server_ssdp_xml, so every object was once the tracked one. *)

NextWrapper ==
    \/ \E i \in Inst : Run(i)
    \/ \E c \in Callers : start_ssdp(c)
    \/ \E c \in Callers : stop_ssdp(c)
    \/ \E c \in Callers : server_ssdp_xml(c)

WrapperSpec == Init /\ [][NextWrapper]_vars

----------------------------------------------------------------------------
(* Vocabulary of the properties *)

\* the objects constructed so far
Objects == 1..n
\* the attributes of o other than the run-state flag
Payload(o) == [o EXCEPT !.__stop = FALSE]
\* the last step was a datagram sent by the loop of i
Sent(i) == net.src = i
\* the last step was the return of call op
Ret(op) == ret.op = op
\* this step is a step of one of the module-level wrappers
WrapperStep ==
    \/ \E c \in Callers : cpc'[c] # cpc[c]
    \/ ret'.op \in {"start_ssdp", "stop_ssdp", "server_ssdp_xml"}

----------------------------------------------------------------------------
(* C1: stop() only sets the flag; stop_ssdp() then joins *)

\* C1 as stated: whenever stop() on a started object has returned, its
\* broadcast loop has terminated.
C1_StopJoins ==
    (Ret("stop") /\ thread[ret.inst] # "initial") => terminated(ret.inst)

\* C1 amended: stop() sets the run-state flag and returns without waiting;
\* whenever stop_ssdp() has returned from its join(), the thread it joined
\* has terminated, and a terminated thread stays terminated and sends no
\* datagram.
C1_StopSsdpJoins ==
    /\ [](Ret("stop") => self[ret.inst].__stop)
    /\ []((Ret("stop_ssdp") /\ ret.inst # 0 /\ ret.val = PyNone)
             => terminated(ret.inst))
    /\ [](\A i \in Inst : terminated(i) => ~Sent(i))
    /\ [][\A i \in Inst : terminated(i) => terminated(i)']_vars

\* stop_ssdp() has returned from joining a thread that has sent datagrams
C1_Witness ==
    /\ Ret("stop_ssdp") /\ ret.inst # 0 /\ ret.val = PyNone
    /\ thread[ret.inst] = "returned"
    /\ self[ret.inst].__stop

----------------------------------------------------------------------------
(* C2, C3: what serve_xml() returns *)

C3_EmptyBeforeStart ==
    (/\ Ret("serve_xml")
     /\ thread[ret.inst] = "initial"
     /\ ~self[ret.inst].__stop) => IsEmpty(ret.val)

----------------------------------------------------------------------------
(* C4: an object that was stopped stays inert *)

\* C4 as stated: once __stop is set, the object sends no datagram.
C4_NoSendAfterStop == \A i \in Inst : self[i].__stop => ~Sent(i)

\* C4 amended: once stop() has set __stop the flag stays set, every
\* serve_xml() on the object, direct or through server_ssdp_xml(), returns
\* empty, the loop sends at most one more datagram, and none once its
\* thread has terminated.
C4_InertOnceStopped ==
    /\ [][\A i \in Inst : self[i].__stop => self[i].__stop']_vars
    /\ [](\A i \in Inst : self[i].__stop =>
             /\ (ret.op \in {"serve_xml", "server_ssdp_xml"} /\ ret.inst = i)
                   => IsEmpty(ret.val)
             /\ late[i] <= 1
             /\ terminated(i) => ~Sent(i))

\* server_ssdp_xml() has returned empty for a stopped object that had one
\* datagram in flight when it was stopped
C4_Witness ==
    /\ Ret("server_ssdp_xml") /\ ret.inst # 0 /\ IsEmpty(ret.val)
    /\ self[ret.inst].__stop
    /\ late[ret.inst] = 1

----------------------------------------------------------------------------
(* C5: the run-state flag is one-way *)

\* C5: __stop is false after construction, only stop() (called directly or
\* at line 134 of stop_ssdp) changes it, and once true it stays true.
C5_FlagOneWay ==
    [][\A i \in Inst :
         /\ (n' = i /\ n = i - 1) => ~self[i].__stop'
         /\ self[i].__stop => self[i].__stop'
         /\ (self[i].__stop' # self[i].__stop) =>
               \/ ret'.op = "stop" /\ ret'.inst = i
               \/ \E c \in Callers :
                     /\ cpc[c] = "stop_134" /\ cpc'[c] = "stop_135"
                     /\ __SSDP = i]_vars

\* the flag of a stopped object has stayed set while its thread ended and a
\* later object was constructed and started
C5_Witness ==
    /\ n = 2
    /\ self[1].__stop /\ thread[1] = "returned"
    /\ ~self[2].__stop /\ is_alive(2)

----------------------------------------------------------------------------
(* C6: start_ssdp() replaces the tracked object without stopping it *)

\* C6: no step of a wrapper changes the flag or the thread of an object
\* that the module global does not name after the step, and an object the
\* global has stopped naming is never named again: an object replaced while
\* running keeps its flag false and its loop going through every later
\* start_ssdp, stop_ssdp and server_ssdp_xml.  A thread that is alive can
\* always take its next step: nothing a wrapper does blocks a loop.
C6_ReplacedKeepsRunning ==
    /\ [][\A i \in Objects :
            /\ (WrapperStep /\ __SSDP' # i) =>
                  (self[i]' = self[i] /\ thread[i]' = thread[i])
            /\ __SSDP # i => __SSDP' # i]_vars
    /\ [](\A i \in Objects : is_alive(i) => ENABLED Run(i))

\* stop_ssdp() has returned from joining object 2, which replaced object 1
\* while both loops were running, and the loop of object 1 is still alive
\* with its flag false and has just sent a datagram
C6_Witness ==
    /\ __SSDP = 2
    /\ self[2].__stop /\ thread[2] = "returned"
    /\ is_alive(1) /\ ~self[1].__stop
    /\ Sent(1)

----------------------------------------------------------------------------
(* C7: what server_ssdp_xml() returns *)

\* an object is tracked by the module global and its thread is alive
TrackedAlive == __SSDP # 0 /\ thread[__SSDP] \notin {"initial", "returned", "raised"}

----------------------------------------------------------------------------
(* C8: the wrappers before any start_ssdp() *)

\* C8: while the module global is None no caller is inside stop_ssdp() or
\* server_ssdp_xml(); a call of either returns at once without raising,
\* changes no object, thread, socket or global and sends nothing, and
\* server_ssdp_xml() returns "".
C8_NoInstanceNoEffect ==
    /\ [](__SSDP = 0 => \A c \in Callers : cpc[c] = "idle")
    /\ [][(__SSDP = 0 /\ ret'.op \in {"stop_ssdp", "server_ssdp_xml"}) =>
             /\ UNCHANGED <<hostname, n, self, thread, sock, late,
                            __SSDP, cpc, cjoin>>
             /\ net' = NoDatagram
             /\ ret'.val = (IF ret'.op = "stop_ssdp"
                            THEN PyNone ELSE PyStr(<<>>))]_vars

\* server_ssdp_xml() has returned "" with no object tracked although an
\* object constructed by the application is running
C8_Witness ==
    /\ Ret("server_ssdp_xml") /\ ret.val = PyStr(<<>>)
    /\ __SSDP = 0
    /\ n > 0 /\ is_alive(1)

----------------------------------------------------------------------------
(* C9: a stop request takes effect at the next flag check *)

\* C9: once __stop is set, the loop sends at most one more datagram, and
\* (fair scheduling, every socket call and sleep completing) a thread that
\* is alive with __stop set eventually terminates.
C9_StopTakesEffect ==
    /\ [](\A i \in Inst : late[i] <= 1)
    /\ \A i \in Inst : (is_alive(i) /\ self[i].__stop) ~> terminated(i)

\* the one in-flight datagram has been sent after the stop request, and
\* the loop has then seen the flag and returned
C9_Witness ==
    \E i \in Inst : late[i] = 1 /\ self[i].__stop /\ thread[i] = "returned"

----------------------------------------------------------------------------
(* C10: the payloads are immutable *)

\* the attributes __init__ builds from the arguments stored in o
Built(o) ==
    SSDP_init(o.__host, o.__server_name, o.__url, o.__description,
              o.__myhostname)

\* C10: no step changes an attribute of a constructed object other than
\* __stop; every attribute is what __init__ built; every non-empty result
\* of serve_xml() is that document and every datagram carries those bytes.
C10_PayloadsImmutable ==
    /\ [][\A i \in Objects : Payload(self[i]') = Payload(self[i])]_vars
    /\ [](\A i \in Objects : Payload(self[i]) = Built(self[i]))
    /\ []((Ret("serve_xml") /\ ~IsEmpty(ret.val)) =>
             ret.val = Built(self[ret.inst]).__myxml)
    /\ [](\A i \in Objects :
             Sent(i) => net.data = Built(self[i]).__mySSDPbroadcast)

\* the loop of an object that was stopped while sending puts its datagram
\* on the network
C10_Witness ==
    \E i \in Objects :
        /\ Sent(i) /\ net.data = self[i].__mySSDPbroadcast
        /\ self[i].__stop

----------------------------------------------------------------------------
(* C11: the stable identifier.  The payloads are a pure function of the    *)
(* constructor's arguments and of socket.gethostname(), so they are checked *)
(* over objects built from several hosts, urls and host names: the host     *)
(* name of the machine may change between two constructions.                *)

\* hosts, host names and urls that tell the inputs of the identifier apart:
\* "a" + "bc" and "ab" + "c" are the same name
PayloadHosts == {<<"c">>, <<"b", "c">>}
PayloadHostnames == {<<"a">>, <<"a", "b">>}
PayloadUrls == {<<"http://c:8080">>, <<"https://c:9090/sab">>}

PayloadInit ==
    /\ hostname \in PayloadHostnames
    /\ n = 0
    /\ self = [i \in Inst |-> NoObject]
    /\ thread = [i \in Inst |-> "initial"]
    /\ sock = [i \in Inst |-> <<>>]
    /\ late = [i \in Inst |-> 0]
    /\ __SSDP = 0
    /\ cpc = [c \in Callers |-> "idle"]
    /\ cjoin = [c \in Callers |-> 0]
    /\ cserve = [r \in Readers |-> 0]
    /\ net = NoDatagram
    /\ ret = NoReturn

\* line 43: socket.gethostname() returns what the machine is called at the
\* moment of the call
Sethostname ==
    /\ \E h \in PayloadHostnames : h # hostname /\ hostname' = h
    /\ net' = NoDatagram
    /\ ret' = NoReturn
    /\ UNCHANGED <<n, self, thread, sock, late, __SSDP, cpc, cjoin, cserve>>

\* lines 38-85: SSDP(host, server_name, url, description) called by the
\* application with any of the hosts and urls
ConstructPayload ==
    /\ n < MaxInst
    /\ \E host \in PayloadHosts, server_name \in ServerNames,
          url \in PayloadUrls, description \in Descriptions :
          self' = [self EXCEPT ![n + 1] =
                     SSDP_init(host, server_name, url, description, hostname)]
    /\ n' = n + 1
    /\ net' = NoDatagram
    /\ ret' = Returned("SSDP", n + 1, PyNone)
    /\ UNCHANGED <<hostname, thread, sock, late, __SSDP, cpc, cjoin,
                   cserve>>

NextPayload ==
    \/ Sethostname
    \/ ConstructPayload
    \/ \E i \in Inst : Stop(i)
    \/ \E i \in Inst : ServeXml(i)

PayloadSpec == PayloadInit /\ [][NextPayload]_vars

\* the tokens of s after the first token open
RECURSIVE after(_, _)
after(s, open) ==
    IF s = <<>> THEN <<>>
    ELSE IF Head(s) = open THEN Tail(s) ELSE after(Tail(s), open)

\* the tokens of s before the first token close
RECURSIVE before(_, _)
before(s, close) ==
    IF s = <<>> \/ Head(s) = close THEN <<>>
    ELSE <<Head(s)>> \o before(Tail(s), close)

\* the identifier a client reads in the USN header of an announcement
USN(data) == before(after(data.value, "USN: uuid:"), "::upnp:rootdevice")
\* the identifier a client reads in the UDN element of a document
UDN(doc) == before(after(doc.value, "<UDN>uuid:"), "</UDN>")

\* C11: two objects built with the same host name and host have the same
\* identifier, whatever their urls; two objects that differ in exactly one
\* of host name and host have different identifiers; and for every object
\* the identifier in the USN header of its announcement is the identifier
\* in the UDN element of its document, also in the document serve_xml()
\* returns.
C11_StableIdentifier ==
    /\ \A i, j \in Objects :
          LET samename == self[i].__myhostname = self[j].__myhostname
              samehost == self[i].__host = self[j].__host
          IN  /\ (samename /\ samehost) => self[i].__uuid = self[j].__uuid
              /\ (samename /\ ~samehost) => self[i].__uuid # self[j].__uuid
              /\ (~samename /\ samehost) => self[i].__uuid # self[j].__uuid
    /\ \A i \in Objects :
          /\ USN(self[i].__mySSDPbroadcast) = self[i].__uuid
          /\ UDN(self[i].__myxml) = self[i].__uuid
          /\ self[i].__uuid # <<>>
    /\ (Ret("serve_xml") /\ ~IsEmpty(ret.val)) =>
          UDN(ret.val) = USN(self[ret.inst].__mySSDPbroadcast)

\* two objects with the same host name and host but different urls exist,
\* and serve_xml() has returned the document of the second
C11_Witness ==
    /\ n = 2
    /\ self[1].__myhostname = self[2].__myhostname
    /\ self[1].__host = self[2].__host
    /\ self[1].__url # self[2].__url
    /\ Ret("serve_xml") /\ ret.inst = 2 /\ ~IsEmpty(ret.val)

----------------------------------------------------------------------------
(* C12: stop() is idempotent *)

\* C12: every stop(), direct or at line 134 of stop_ssdp, returns None
\* without raising and leaves the object as it was with __stop true; one
\* on an object whose __stop is already true changes nothing at all: not
\* the flag, the payloads, the thread, its sockets or the module global.
C12_StopIdempotent ==
    /\ [][\A i \in Objects :
            (ret'.op = "stop" /\ ret'.inst = i) =>
               /\ ret'.val = PyNone
               /\ self[i]' = [self[i] EXCEPT !.__stop = TRUE]
               /\ self[i].__stop =>
                     UNCHANGED <<hostname, n, self, thread, sock, late,
                                 __SSDP, cpc, cjoin>>]_vars
    /\ [][\A c \in Callers :
            (cpc[c] = "stop_134" /\ cpc'[c] = "stop_135") =>
               /\ self[__SSDP]' = [self[__SSDP] EXCEPT !.__stop = TRUE]
               /\ self[__SSDP].__stop =>
                     UNCHANGED <<hostname, n, self, thread, sock, late,
                                 __SSDP, cjoin>>]_vars

\* stop() has returned on an object whose loop had already seen an earlier
\* stop request and ended
C12_Witness ==
    /\ Ret("stop") /\ ret.val = PyNone
    /\ thread[ret.inst] = "returned"
    /\ self[ret.inst].__stop

----------------------------------------------------------------------------
(* C13: serve_xml() racing with stop() and with the loop.  serve_xml()     *)
(* reads self.__stop at line 114 and self.__myxml at line 118; another     *)
(* thread can run between the two reads, so here the call is two steps of  *)
(* a reader thread.                                                        *)

\* line 114: if self.__stop
serve_xml_if(o) == o.__stop

\* mutant: the document is cut short when the object was stopped meanwhile
serve_xml_torn(o) ==
    IF o.__stop THEN PyStr(SubSeq(o.__myxml.value, 1, 1)) ELSE o.__myxml

\* line 118: return self.__myxml
serve_xml_return(o) == o.__myxml

\* lines 114-115: reader r calls i.serve_xml(), which tests the flag and
\* returns None if it is set
ServeXmlIf(r, i) ==
    /\ cserve[r] = 0
    /\ i <= n
    /\ IF serve_xml_if(self[i])
       THEN /\ ret' = Returned("serve_xml", i, PyNone)
            /\ UNCHANGED cserve
       ELSE /\ ret' = NoReturn
            /\ cserve' = [cserve EXCEPT ![r] = i]
    /\ net' = NoDatagram
    /\ UNCHANGED <<hostname, n, self, thread, sock, late, __SSDP, cpc, cjoin>>

\* line 118: the call of reader r returns the document
ServeXmlReturn(r) ==
    /\ cserve[r] # 0
    /\ ret' = Returned("serve_xml", cserve[r],
                       serve_xml_return(self[cserve[r]]))
    /\ cserve' = [cserve EXCEPT ![r] = 0]
    /\ net' = NoDatagram
    /\ UNCHANGED <<hostname, n, self, thread, sock, late, __SSDP, cpc, cjoin>>

NextRace ==
    \/ \E i \in Inst : Run(i)
    \/ Construct
    \/ \E i \in Inst : Start(i)
    \/ \E i \in Inst : Stop(i)
    \/ \E r \in Readers, i \in Inst : ServeXmlIf(r, i)
    \/ \E r \in Readers : ServeXmlReturn(r)

RaceSpec == Init /\ [][NextRace]_vars

\* this step is a step of a serve_xml() call
ServeXmlStep == cserve' # cserve \/ ret'.op = "serve_xml"

\* C13: however a serve_xml() call interleaves with stop() and the loop, it
\* returns None, and then the flag is set, or the whole document __init__
\* built, never anything else and never an exception; none of its steps
\* changes an object, a thread, a socket or the module global or sends
\* anything, so the loop goes on as it would have: a thread that is alive
\* can always take its next step.
C13_ServeXmlRaceFree ==
    /\ [](Ret("serve_xml") =>
             \/ ret.val = PyNone /\ self[ret.inst].__stop
             \/ ret.val = Built(self[ret.inst]).__myxml)
    /\ [][ServeXmlStep =>
             /\ UNCHANGED <<hostname, n, self, thread, sock, late, __SSDP,
                            cpc, cjoin>>
             /\ net' = NoDatagram]_vars
    /\ [](\A i \in Objects : is_alive(i) => ENABLED Run(i))
    /\ [][\A i \in Objects :
            (ServeXmlStep /\ is_alive(i)) => (ENABLED Run(i))']_vars

\* serve_xml() has returned the document of an object that stop() set the
\* flag of between the call's two reads, while the loop was sending
C13_Witness ==
    /\ Ret("serve_xml") /\ ~IsEmpty(ret.val)
    /\ self[ret.inst].__stop
    /\ thread[ret.inst] = "sendto"

----------------------------------------------------------------------------
(* C14: how the loop ends *)

\* C14 as stated: whenever the thread of an object has terminated, its
\* __stop is true.
C14_TerminatedImpliesStopped ==
    \A i \in Objects : terminated(i) => self[i].__stop

\* C14 amended: run() returns only at the loop condition of line 100 with
\* __stop true, so a thread that has returned has its flag true; a thread
\* that has terminated with its flag false was ended by an exception of
\* socket.socket, setsockopt or sendto, and a step that returns from run()
\* is a step from the loop condition.
C14_ReturnsOnlyWhenStopped ==
    /\ [](\A i \in Objects :
             /\ thread[i] = "returned" => self[i].__stop
             /\ (terminated(i) /\ ~self[i].__stop) => thread[i] = "raised")
    /\ [][\A i \in Objects :
            (thread[i] # "returned" /\ thread[i]' = "returned") =>
               (thread[i] = "while" /\ self[i].__stop)]_vars

\* one loop has returned after a stop request and another has been ended
\* by an exception with its flag still false
C14_Witness ==
    \E i, j \in Objects :
        /\ thread[i] = "returned" /\ self[i].__stop
        /\ thread[j] = "raised" /\ ~self[j].__stop

----------------------------------------------------------------------------
(* C15: the socket of an iteration *)

\* C15: the loop of an object holds at most one open socket; it holds one
\* exactly between socket.socket() and the end of the with block, and none
\* before the thread starts, at the loop condition, while it sleeps or
\* after the thread has terminated; an OSError of setsockopt or sendto
\* leaves no socket open.
C15_NoSocketLeak ==
    /\ \A i \in Inst :
          /\ Len(sock[i]) <= 1
          /\ Len(sock[i]) = 1 <=>
                thread[i] \in {"setsockopt", "sendto", "exit"}
    /\ (ret.op \in {"socket", "setsockopt", "sendto"}
          /\ ret.val = PyRaise("OSError")) =>
             (sock[ret.inst] = <<>> /\ thread[ret.inst] = "raised")

\* sendto has raised in an iteration that had opened a socket and set its
\* TTL, and the thread has ended with no socket open
C15_Witness ==
    /\ Ret("sendto") /\ ret.val = PyRaise("OSError")
    /\ sock[ret.inst] = <<>>
    /\ terminated(ret.inst)

----------------------------------------------------------------------------
(* C16: an OSError in the loop *)

\* this step is an OSError raised by a call of the loop of i
Raises(i) ==
    /\ ret'.op \in {"socket", "setsockopt", "sendto"}
    /\ ret'.inst = i
    /\ ret'.val = PyRaise("OSError")

\* C16: an OSError of socket.socket, setsockopt or sendto ends the thread
\* in the same step, sends nothing and leaves every object as it was, the
\* flag included; a thread that has ended stays ended, whatever is called
\* afterwards, and sends no datagram.
C16_FailureEndsThread ==
    /\ [][\A i \in Objects :
            Raises(i) =>
               /\ is_alive(i) /\ thread'[i] = "raised"
               /\ self' = self
               /\ net' = NoDatagram]_vars
    /\ [][\A i \in Objects :
            thread[i] = "raised" =>
               /\ thread'[i] = "raised"
               /\ net'.src # i
               /\ self'[i].__stop # self[i].__stop =>
                     (ret'.op = "stop" /\ ret'.inst = i)]_vars
    /\ [](\A i \in Objects : thread[i] = "raised" => ~Sent(i))

\* start() has been called again on an object whose loop was ended by an
\* OSError with its flag false: it raised and the thread is still ended
C16_Witness ==
    /\ Ret("start") /\ ret.val = PyRaise("RuntimeError")
    /\ thread[ret.inst] = "raised"
    /\ ~self[ret.inst].__stop

----------------------------------------------------------------------------
(* C17: the order of an iteration *)

\* the statements of run() in the order control passes through them
LoopOrder ==
    {<<"initial", "while">>,
     <<"while", "socket">>, <<"while", "returned">>,
     <<"socket", "setsockopt">>, <<"socket", "raised">>,
     <<"setsockopt", "sendto">>, <<"setsockopt", "raised">>,
     <<"sendto", "exit">>, <<"sendto", "raised">>,
     <<"exit", "sleep">>,
     <<"sleep", "while">>}

\* C17: the thread of an object passes through flag check, socket.socket,
\* setsockopt, sendto, the end of the with block and sleep in this order
\* and back to the flag check; only the step at the flag check depends on
\* __stop, and it is the only one that returns from run(); a datagram is
\* sent by the step of sendto and by no other, so that after a datagram
\* the next one is sent only after the socket was closed, one sleep has
\* ended, the flag was checked and a new socket was opened; and no socket
\* is open at the flag check or during the sleep.
C17_IterationOrder ==
    /\ [][\A i \in Objects :
            /\ thread'[i] # thread[i] =>
                  <<thread[i], thread'[i]>> \in LoopOrder
            /\ (thread[i] = "while" /\ thread'[i] # thread[i]) =>
                  thread'[i] = (IF self[i].__stop
                                THEN "returned" ELSE "socket")
            /\ net'.src = i <=>
                  (thread[i] = "sendto" /\ thread'[i] = "exit")
            /\ (thread[i] = "exit" /\ thread'[i] = "sleep") =>
                  (sock[i] # <<>> /\ sock'[i] = <<>>)]_vars
    /\ [](\A i \in Objects :
             thread[i] \in {"while", "sleep"} => sock[i] = <<>>)

\* an iteration has opened its socket, set the TTL and sent its datagram,
\* and the socket is still open: the flag is not looked at before it is
\* closed and the sleep has ended
C17_Witness ==
    \E i \in Objects :
        /\ Sent(i) /\ net.ttl = MULTICAST_TTL
        /\ thread[i] = "exit"
        /\ Len(sock[i]) = 1

----------------------------------------------------------------------------
(* C18: the wrappers after the tracked thread died of an OSError *)

\* the tracked object's thread was ended by an OSError
TrackedRaised == __SSDP # 0 /\ thread[__SSDP] = "raised"

----------------------------------------------------------------------------
(* C19: stop() before start() *)

\* C19: from a state in which an object has its __stop set and its thread
\* not yet started, the thread is only ever unstarted, at the loop
\* condition or returned, it never holds a socket and the object never
\* sends a datagram; the step the started thread takes at the loop
\* condition returns from run(), and (fair scheduling) it is taken.
C19_StopBeforeStart ==
    /\ \A i \in Inst :
          []((i <= n /\ thread[i] = "initial" /\ self[i].__stop) =>
                [](/\ thread[i] \in {"initial", "while", "returned"}
                   /\ sock[i] = <<>>
                   /\ ~Sent(i)
                   /\ late[i] = 0))
    /\ [][\A i \in Inst :
            (thread[i] = "while" /\ self[i].__stop
               /\ thread'[i] # thread[i]) => thread'[i] = "returned"]_vars
    /\ \A i \in Inst :
          (thread[i] = "while" /\ self[i].__stop) ~> (thread[i] = "returned")

\* start() has just returned on an object that was stopped before: its
\* thread is at the loop condition with the flag already set
C19_Witness ==
    /\ Ret("start") /\ ret.val = PyNone
    /\ self[ret.inst].__stop
    /\ thread[ret.inst] = "while"

----------------------------------------------------------------------------
(* C20: stop_ssdp() racing with start_ssdp().  The application uses only   *)
(* the wrappers, so a flag is set only by line 134 of stop_ssdp.           *)

\* C20 as stated: stop_ssdp() never sets the flag of an object whose thread
\* has not been started, and never joins one: no object has its flag set
\* while its thread is unstarted, and stop_ssdp() never raises the
\* RuntimeError of joining an unstarted thread.
C20_StopsOnlyStarted ==
    /\ \A i \in Objects : self[i].__stop => thread[i] # "initial"
    /\ ~(Ret("stop_ssdp") /\ ret.val = PyRaise("RuntimeError"))

====
